---- MODULE Spec2Model ----
(***************************************************************************)
(* A model of the data-access layer of the family expense tracker         *)
(* (app/utils/db.py) and of the alert computation of the dashboard page   *)
(* (app/pages/1_Dashboard.py).                                            *)
(*                                                                         *)
(* Conventions.                                                            *)
(*   - A table is the set of its rows; a row is a record with the columns *)
(*     the operations read or write.  AUTOINCREMENT ids come from one     *)
(*     counter per table (sqlite_sequence) and are never reused.          *)
(*   - A nullable column or an Optional result is a set: {} is NULL/None, *)
(*     {v} is the value v.                                                 *)
(*   - Python strings that the code only compares are TLA+ strings; the   *)
(*     strings the code inspects character by character (member and goal  *)
(*     names, dates) are sequences of one-character strings.              *)
(*   - REAL amounts are integers (sums are exact).                        *)
(*   - `last` records the last call: its name, its arguments and what it  *)
(*     returned.                                                           *)
(***************************************************************************)
EXTENDS Integers, Sequences, FiniteSets

VARIABLES
    has_bcrypt,     \* db.py:12-17  HAS_BCRYPT, fixed when the module is imported
    users,          \* db.py:68-77  table users
    users_seq,      \* AUTOINCREMENT counter of users
    token_seq,      \* number of tokens secrets.token_urlsafe has produced
    password_set,   \* history: the password each user was last given, and by which call
    now,            \* time.time(): [sec |-> whole seconds, frac |-> a fraction is pending]
    family,         \* db.py:79-91  table family
    family_seq,
    goals,          \* db.py:115-124 table goals
    goals_seq,
    budgets,        \* db.py:106-113 table budgets
    budgets_seq,
    expenses,       \* db.py:93-104 table expenses
    expenses_seq,
    category_limits,\* 1_Dashboard.py:57-62  the parsed category limits, in dict order
    cat_spend,      \* 1_Dashboard.py:39     the month's spend per category
    alerts,         \* 1_Dashboard.py:71     the alerts render_alerts collected
    telegram_config,\* db.py:678-684 the file instance/telegram_config.json
    telegram_users, \* db.py:803-807 the file instance/telegram_users.json
    smtp_configured,\* db.py:715-718 SMTP_HOST, SMTP_PORT, SMTP_USER and SMTP_PASS are all set
    conn,           \* db.py:514-524 the connection of each running set_budget call
    db_lock,        \* the connection that holds the write lock of the database file
    last            \* the last call and its result

vars == <<has_bcrypt, users, users_seq, password_set, token_seq, now, family, family_seq,
          goals, goals_seq, budgets, budgets_seq, expenses, expenses_seq,
          category_limits, cat_spend, alerts, telegram_config, telegram_users,
          smtp_configured, conn, db_lock, last>>

userVars    == <<users, users_seq, password_set, token_seq, now>>
familyVars  == <<family, family_seq, goals, goals_seq>>
budgetVars  == <<budgets, budgets_seq>>
expenseVars == <<expenses, expenses_seq>>
alertVars   == <<category_limits, cat_spend, alerts>>
notifyVars  == <<telegram_config, telegram_users, smtp_configured>>
connVars    == <<conn, db_lock>>

(***************************************************************************)
(* Bounds of the model.                                                    *)
(***************************************************************************)
MaxUserRows == 2      \* rows ever inserted into users
MaxTokens   == 2      \* reset tokens ever issued
MaxTime     == 2      \* the clock stops at this second
MaxRows     == 3      \* rows ever inserted into family and goals together
MaxBudgetRows == 3    \* rows ever inserted into budgets
MaxExpenseRows == 2   \* rows ever inserted into expenses
MaxTenantRows == 3    \* rows ever inserted into all tables together, two users at work

NULL == {}
Some(v) == {v}
TheValue(opt) == CHOOSE v \in opt : TRUE

Usernames == {"", "alice", "bob"}
Emails    == {"", "e1"}
Passwords == {"", "p1", "p2"}
Salts     == {"s1", "s2"}
TTLs      == {-1, 0, 1}

\* The value secrets.token_urlsafe returns on its n-th call; <<>> is the empty string.
Token_repeated(n) == <<"tok", 1>>

Token(n) == <<"tok", n>>
EmptyToken == <<>>
Tokens == {Token(n) : n \in 1..(MaxTokens + 1)} \cup {EmptyToken}

(***************************************************************************)
(* Password hashing (db.py:36-60).  A bcrypt hash embeds its salt; the    *)
(* SHA256 fallback has none.  Both are taken to be collision free.        *)
(***************************************************************************)
hash_password(plain, salt) ==
    IF plain = "" THEN <<>>
    ELSE IF has_bcrypt THEN <<"bcrypt", salt, plain>>
    ELSE <<"sha256", plain>>

verify_password_any(plain, hashed) ==
    hashed # <<>>

verify_password(plain, hashed) ==
    IF hashed = <<>> THEN FALSE
    ELSE IF has_bcrypt
         THEN \* checkpw raises on a hash that is no bcrypt hash: caught, False
              /\ hashed[1] = "bcrypt"
              /\ hashed[3] = plain
         ELSE hashed = <<"sha256", plain>>

(***************************************************************************)
(* User management (db.py:130-178).                                        *)
(***************************************************************************)
UserRow(id, username, email, pw_hash) ==
    [id |-> id, username |-> username, email |-> email,
     password_hash |-> pw_hash, reset_token |-> NULL, reset_expiry |-> NULL]

\* The UNIQUE constraint on users.username: the INSERT raises IntegrityError.
username_unique_violated_never(username) == FALSE

username_unique_violated(username) ==
    \E r \in users : r.username = username

create_user(username, email, password) ==
    /\ users_seq < MaxUserRows
    /\ IF username = "" \/ password = ""
       THEN /\ last' = [op |-> "create_user", username |-> username, email |-> email,
                        password |-> password, ret |-> FALSE]
            /\ UNCHANGED <<users, users_seq, password_set>>
       ELSE \E salt \in Salts :
              LET pw_hash == hash_password(password, salt) IN
              IF username_unique_violated(username)
              THEN /\ last' = [op |-> "create_user", username |-> username,
                               email |-> email, password |-> password, ret |-> FALSE]
                   /\ UNCHANGED <<users, users_seq, password_set>>
              ELSE /\ users' = users \cup
                                 {UserRow(users_seq + 1, username, email, pw_hash)}
                   /\ users_seq' = users_seq + 1
                   /\ password_set' = [password_set EXCEPT ![username] =
                                         Some([password |-> password, by |-> "create_user"])]
                   /\ last' = [op |-> "create_user", username |-> username,
                               email |-> email, password |-> password, ret |-> TRUE]
    /\ UNCHANGED <<has_bcrypt, token_seq, now, familyVars, budgetVars, expenseVars, alertVars, notifyVars, connVars>>

login_user_result(username, password) ==
    IF username = "" \/ password = "" THEN FALSE
    ELSE LET rows == {r \in users : r.username = username} IN
         IF rows = {} THEN FALSE
         ELSE \E r \in rows : verify_password(password, r.password_hash)

login_user(username, password) ==
    /\ last' = [op |-> "login_user", username |-> username, password |-> password,
                ret |-> login_user_result(username, password)]
    /\ UNCHANGED <<has_bcrypt, userVars, familyVars, budgetVars, expenseVars, alertVars, notifyVars, connVars>>

(***************************************************************************)
(* Password reset tokens (db.py:206-276).                                  *)
(***************************************************************************)
\* time.time() > expiry, for an integer expiry
time_after(expiry) ==
    \/ now.sec > expiry
    \/ now.sec = expiry /\ now.frac

\* WHERE username = ? OR email = ?
reset_token_match(r, email_or_username) ==
    \/ r.username = email_or_username
    \/ r.email = email_or_username

create_reset_token(email_or_username, ttl_seconds) ==
    /\ token_seq < MaxTokens
    /\ LET rows == {r \in users : reset_token_match(r, email_or_username)} IN
       IF rows = {}
       THEN /\ last' = [op |-> "create_reset_token",
                        email_or_username |-> email_or_username,
                        ttl_seconds |-> ttl_seconds, ret |-> NULL]
            /\ UNCHANGED <<users, token_seq>>
       ELSE \E row \in rows :       \* fetchone: the first row the scan yields
              LET username == row.username
                  token    == Token(token_seq + 1)
                  expiry   == now.sec + ttl_seconds
              IN /\ users' = {IF r.username = username
                              THEN [r EXCEPT !.reset_token = Some(token),
                                             !.reset_expiry = Some(expiry)]
                              ELSE r : r \in users}
                 /\ token_seq' = token_seq + 1
                 /\ last' = [op |-> "create_reset_token",
                             email_or_username |-> email_or_username,
                             ttl_seconds |-> ttl_seconds, ret |-> Some(token),
                             \* history: the user matched, and the token and the
                             \* expiry the UPDATE overwrote
                             username |-> username,
                             had_token |-> row.reset_token,
                             had_expiry |-> row.reset_expiry]
    /\ UNCHANGED <<has_bcrypt, users_seq, password_set, now, familyVars, budgetVars,
                   expenseVars, alertVars, notifyVars, connVars>>

\* `if expiry and time.time() > expiry`, after `expiry = int(expiry) if expiry else 0`
reset_row_expired(r) ==
    LET expiry == IF r.reset_expiry = NULL \/ r.reset_expiry = Some(0)
                  THEN 0 ELSE TheValue(r.reset_expiry)
    IN expiry # 0 /\ time_after(expiry)

\* The results verify_reset_token can return (one per row fetchone may yield).
verify_reset_token_results(token) ==
    IF token = EmptyToken THEN {NULL}
    ELSE LET rows == {r \in users : r.reset_token = Some(token)} IN
         IF rows = {} THEN {NULL}
         ELSE {IF reset_row_expired(r) THEN NULL ELSE Some(r.username) : r \in rows}

verify_reset_token(token) ==
    /\ \E ret \in verify_reset_token_results(token) :
         last' = [op |-> "verify_reset_token", token |-> token, ret |-> ret]
    /\ UNCHANGED <<has_bcrypt, userVars, familyVars, budgetVars, expenseVars, alertVars, notifyVars, connVars>>

clear_reset_token(username) ==
    /\ users' = {IF r.username = username
                 THEN [r EXCEPT !.reset_token = NULL, !.reset_expiry = NULL]
                 ELSE r : r \in users}
    /\ last' = [op |-> "clear_reset_token", username |-> username]
    /\ UNCHANGED <<has_bcrypt, users_seq, password_set, token_seq, now, familyVars, budgetVars,
                   expenseVars, alertVars, notifyVars, connVars>>

\* SET password_hash = ?, reset_token = NULL, reset_expiry = NULL
reset_password_set_keeps_token(r, new_hash) ==
    [r EXCEPT !.password_hash = new_hash]

reset_password_set(r, new_hash) ==
    [r EXCEPT !.password_hash = new_hash, !.reset_token = NULL, !.reset_expiry = NULL]

reset_password(username, new_password) ==
    /\ \E salt \in Salts :
         LET new_hash == hash_password(new_password, salt) IN
         users' = {IF r.username = username THEN reset_password_set(r, new_hash) ELSE r
                   : r \in users}
    /\ last' = [op |-> "reset_password", username |-> username,
                new_password |-> new_password, ret |-> TRUE,
                \* history: the tokens the call found stored for username
                had_tokens |-> UNION {r.reset_token : r \in {x \in users : x.username = username}}]
    /\ password_set' = IF \E r \in users : r.username = username
                       THEN [password_set EXCEPT ![username] =
                               Some([password |-> new_password, by |-> "reset_password"])]
                       ELSE password_set
    /\ UNCHANGED <<has_bcrypt, users_seq, token_seq, now, familyVars, budgetVars,
                   expenseVars, alertVars, notifyVars, connVars>>

(***************************************************************************)
(* Python values the delete functions inspect.  A str is the sequence of  *)
(* its characters; an identifier is an int, [int |-> n], or a str,        *)
(* [str |-> s].                                                            *)
(***************************************************************************)
DigitChars == <<"0", "1", "2", "3", "4", "5", "6", "7", "8", "9">>

NoneValue   == [none |-> TRUE]
IntValue(n) == [int |-> n]
StrValue(s) == [str |-> s]
isinstance_int(x) == "int" \in DOMAIN x
isinstance_str(x) == "str" \in DOMAIN x
is_None(x) == "none" \in DOMAIN x

\* str.isdigit(): not empty and every character a digit
isdigit(s) ==
    /\ Len(s) > 0
    /\ \A i \in 1..Len(s) : \E d \in 1..Len(DigitChars) : DigitChars[d] = s[i]

DigitOf(c) == (CHOOSE d \in 1..Len(DigitChars) : DigitChars[d] = c) - 1

\* int(s) of a string of digits
RECURSIVE int_of_str(_)
int_of_str(s) ==
    IF Len(s) = 0 THEN 0
    ELSE int_of_str(SubSeq(s, 1, Len(s) - 1)) * Len(DigitChars) + DigitOf(s[Len(s)])

\* str(n) for n >= 0
RECURSIVE str_of_int(_)
str_of_int(n) ==
    IF n < Len(DigitChars) THEN <<DigitChars[n + 1]>>
    ELSE str_of_int(n \div Len(DigitChars)) \o <<DigitChars[(n % Len(DigitChars)) + 1]>>

\* The test of delete_family_member and delete_goal, and the id it yields.
is_numeric_identifier(x) ==
    \/ isinstance_int(x)
    \/ isinstance_str(x) /\ isdigit(x.str)

int_of(x) == IF isinstance_int(x) THEN x.int ELSE int_of_str(x.str)

FamilyUsers == {"alice", "bob"}
MemberNames == {<<"a", "n", "n">>, <<"2">>}
GoalNames   == {<<"c", "a", "r">>}
RowIds      == 1..MaxRows
MemberIdentifiers ==
    {IntValue(n) : n \in RowIds} \cup {StrValue(s) : s \in MemberNames \cup {<<"1">>}}
GoalIdentifiers ==
    {IntValue(n) : n \in RowIds} \cup {StrValue(s) : s \in GoalNames \cup {<<"1">>}}

(***************************************************************************)
(* Family helpers (db.py:279-418).  Of a family row the model keeps the   *)
(* id, the owner and the member name.                                     *)
(***************************************************************************)
add_family_member(username, member_name) ==
    /\ family_seq + goals_seq < MaxRows
    /\ family' = family \cup {[id |-> family_seq + 1, username |-> username,
                               member_name |-> member_name, is_head |-> 0]}
    /\ family_seq' = family_seq + 1
    /\ last' = [op |-> "add_family_member", username |-> username,
                member_name |-> member_name, ret |-> TRUE]
    /\ UNCHANGED <<has_bcrypt, userVars, goals, goals_seq, budgetVars, expenseVars, alertVars, notifyVars, connVars>>

\* The rows the DELETE statement of delete_family_member removes.
delete_family_member_rows_any_owner(username, member_identifier) ==
    IF is_numeric_identifier(member_identifier)
    THEN {r \in family : r.id = int_of(member_identifier)}
    ELSE {r \in family : r.username = username /\ r.member_name = member_identifier.str}

delete_family_member_rows(username, member_identifier) ==
    IF is_numeric_identifier(member_identifier)
    THEN LET mid == int_of(member_identifier) IN
         {r \in family : r.username = username /\ r.id = mid}
    ELSE {r \in family : r.username = username /\ r.member_name = member_identifier.str}

\* return rc > 0
delete_returns_ran(rc) == rc >= 0

delete_returns(rc) == rc > 0

delete_family_member(username, member_identifier) ==
    LET deleted == delete_family_member_rows(username, member_identifier)
        rc == Cardinality(deleted)
    IN /\ family' = family \ deleted
       /\ last' = [op |-> "delete_family_member", username |-> username,
                   identifier |-> member_identifier, rowcount |-> rc,
                   ret |-> delete_returns(rc)]
       /\ UNCHANGED <<has_bcrypt, userVars, family_seq, goals, goals_seq, budgetVars,
                      expenseVars, alertVars, notifyVars, connVars>>

(***************************************************************************)
(* save_family and load_family (db.py:334-394).  A row dict is a function *)
(* from its keys to Python values; of its keys the model keeps            *)
(* member_name and is_head.  An element of rows that is no dict is None.  *)
(***************************************************************************)
BoolValue(b) == [bool |-> b]
isinstance_bool(x) == "bool" \in DOMAIN x
isinstance_dict(x) == "dict" \in DOMAIN x

UpperChars == <<"A", "B", "C", "D", "E", "F", "G", "H", "I", "J", "K", "L", "M",
                "N", "O", "P", "Q", "R", "S", "T", "U", "V", "W", "X", "Y", "Z">>
LowerChars == <<"a", "b", "c", "d", "e", "f", "g", "h", "i", "j", "k", "l", "m",
                "n", "o", "p", "q", "r", "s", "t", "u", "v", "w", "x", "y", "z">>

lower_char(c) ==
    IF \E i \in 1..Len(UpperChars) : UpperChars[i] = c
    THEN LowerChars[CHOOSE i \in 1..Len(UpperChars) : UpperChars[i] = c]
    ELSE c

\* str.lower()
lower(s) == [i \in 1..Len(s) |-> lower_char(s[i])]

\* str(x)
str_of(x) ==
    IF isinstance_str(x) THEN x.str
    ELSE IF is_None(x) THEN <<"N", "o", "n", "e">>
    ELSE IF isinstance_bool(x)
         THEN IF x.bool THEN <<"T", "r", "u", "e">> ELSE <<"F", "a", "l", "s", "e">>
    ELSE IF x.int < 0 THEN <<"-">> \o str_of_int(0 - x.int) ELSE str_of_int(x.int)

\* bool(x) is False
is_falsy(x) ==
    \/ is_None(x)
    \/ isinstance_bool(x) /\ ~x.bool
    \/ isinstance_int(x) /\ x.int = 0
    \/ isinstance_str(x) /\ x.str = <<>>

\* x or default
py_or(x, default) == IF is_falsy(x) THEN default ELSE x

\* r.get(key, default)
dict_get(r, key, default) == IF key \in DOMAIN r.dict THEN r.dict[key] ELSE default

\* 1 if str(r.get("is_head","")).lower() in ("on","true","1","yes") else 0
is_head_of_case_sensitive(r) ==
    IF str_of(dict_get(r, "is_head", StrValue(<<>>)))
         \in {<<"o", "n">>, <<"t", "r", "u", "e">>, <<"1">>, <<"y", "e", "s">>}
    THEN 1 ELSE 0

is_head_of(r) ==
    IF lower(str_of(dict_get(r, "is_head", StrValue(<<>>))))
         \in {<<"o", "n">>, <<"t", "r", "u", "e">>, <<"1">>, <<"y", "e", "s">>}
    THEN 1 ELSE 0

\* str(r.get("member_name") or "")
member_name_of(r) == str_of(py_or(dict_get(r, "member_name", NoneValue), StrValue(<<>>)))

\* The rows the loop inserts, the i-th with the i-th id after the counter.
save_family_inserted(username, rows) ==
    {[id |-> family_seq + i, username |-> username,
      member_name |-> member_name_of(rows[i]), is_head |-> is_head_of(rows[i])]
     : i \in 1..Len(rows)}

save_family(family_name, username, rows) ==
    /\ family_seq + goals_seq + Len(rows) <= MaxRows
    /\ IF \E i \in 1..Len(rows) : ~isinstance_dict(rows[i])
       THEN \* r.get raises: the connection is closed without a commit
            /\ last' = [op |-> "save_family", username |-> username, rows |-> rows,
                        ret |-> FALSE]
            /\ UNCHANGED <<family, family_seq>>
       ELSE /\ family' = {r \in family : r.username # username}
                           \cup save_family_inserted(username, rows)
            /\ family_seq' = family_seq + Len(rows)
            /\ last' = [op |-> "save_family", username |-> username, rows |-> rows,
                        ret |-> TRUE,
                        \* history: the number of rows the DELETE removed
                        rowcount |-> Cardinality({r \in family : r.username = username})]
    /\ UNCHANGED <<has_bcrypt, userVars, goals, goals_seq, budgetVars, expenseVars, alertVars, notifyVars, connVars>>

\* ORDER BY id ASC
RECURSIVE order_by_id(_)
order_by_id(rows) ==
    IF rows = {} THEN <<>>
    ELSE LET first == CHOOSE r \in rows : \A o \in rows : r.id <= o.id
         IN <<first>> \o order_by_id(rows \ {first})

\* SELECT id, member_name, ..., is_head, ... FROM family WHERE username = ?
\* ORDER BY id ASC
load_family_from(table, username) ==
    LET rows == order_by_id({r \in table : r.username = username}) IN
    [i \in 1..Len(rows) |-> [id |-> rows[i].id, member_name |-> rows[i].member_name,
                             is_head |-> rows[i].is_head]]

load_family_result(username) == load_family_from(family, username)

load_family(username) ==
    /\ last' = [op |-> "load_family", username |-> username,
                ret |-> load_family_result(username)]
    /\ UNCHANGED <<has_bcrypt, userVars, familyVars, budgetVars, expenseVars, alertVars, notifyVars, connVars>>

(***************************************************************************)
(* Goals (db.py:556-633).  Of a goal row the model keeps the id, the      *)
(* owner, the name, the target amount and the months.                     *)
(***************************************************************************)
\* float(target_amount or 0.0)
coerce_target_amount(target_amount) ==
    IF target_amount = NULL \/ target_amount = Some(0) THEN 0 ELSE TheValue(target_amount)

\* int(months or 1)
coerce_months(months) ==
    IF months = NULL \/ months = Some(0) THEN 1 ELSE TheValue(months)

add_goal(username, goal_name, target_amount, months) ==
    /\ family_seq + goals_seq < MaxRows
    /\ goals' = goals \cup {[id |-> goals_seq + 1, username |-> username,
                             goal_name |-> goal_name,
                             target_amount |-> coerce_target_amount(target_amount),
                             months_to_complete |-> coerce_months(months)]}
    /\ goals_seq' = goals_seq + 1
    /\ last' = [op |-> "add_goal", username |-> username, goal_name |-> goal_name,
                target_amount |-> target_amount, months |-> months, ret |-> TRUE]
    /\ UNCHANGED <<has_bcrypt, userVars, family, family_seq, budgetVars, expenseVars, alertVars, notifyVars, connVars>>

\* The rows the DELETE statement of delete_goal removes.
delete_goal_rows_any_owner(username, goal_identifier) ==
    IF is_numeric_identifier(goal_identifier)
    THEN {r \in goals : r.id = int_of(goal_identifier)}
    ELSE {r \in goals : r.username = username /\ r.goal_name = goal_identifier.str}

delete_goal_rows(username, goal_identifier) ==
    IF is_numeric_identifier(goal_identifier)
    THEN LET gid == int_of(goal_identifier) IN
         {r \in goals : r.username = username /\ r.id = gid}
    ELSE {r \in goals : r.username = username /\ r.goal_name = goal_identifier.str}

delete_goal(username, goal_identifier) ==
    LET deleted == delete_goal_rows(username, goal_identifier)
        rc == Cardinality(deleted)
    IN /\ goals' = goals \ deleted
       /\ last' = [op |-> "delete_goal", username |-> username,
                   identifier |-> goal_identifier, rowcount |-> rc,
                   ret |-> delete_returns(rc)]
       /\ UNCHANGED <<has_bcrypt, userVars, family, family_seq, goals_seq, budgetVars,
                      expenseVars, alertVars, notifyVars, connVars>>

\* ORDER BY id DESC
RECURSIVE order_by_id_desc(_)
order_by_id_desc(rows) ==
    IF rows = {} THEN <<>>
    ELSE LET first == CHOOSE r \in rows : \A o \in rows : r.id >= o.id
         IN <<first>> \o order_by_id_desc(rows \ {first})

\* SELECT id, goal_name, target_amount, months_to_complete, created_on FROM goals
\* WHERE username = ? ORDER BY id DESC
load_goals_result(username) ==
    LET rows == order_by_id_desc({r \in goals : r.username = username}) IN
    [i \in 1..Len(rows) |-> [id |-> rows[i].id, goal_name |-> rows[i].goal_name,
                             target_amount |-> rows[i].target_amount,
                             months_to_complete |-> rows[i].months_to_complete]]

load_goals(username) ==
    /\ last' = [op |-> "load_goals", username |-> username,
                ret |-> load_goals_result(username)]
    /\ UNCHANGED <<has_bcrypt, userVars, familyVars, budgetVars, expenseVars, alertVars,
                   notifyVars, connVars>>

(***************************************************************************)
(* Budgets (db.py:490-549).  A JSON text is [json |-> v], the text that   *)
(* parses to v, or [garbage |-> s], a text json.loads rejects.  A         *)
(* category_limits argument is None, a dict [dict |-> d] with d a         *)
(* function from categories to limits, or a str [str |-> text].           *)
(***************************************************************************)
DictValue(d) == [dict |-> d]
JsonText(v) == [json |-> v]
GarbageText(t) == [garbage |-> t]
json_loads_ok(text) == "json" \in DOMAIN text
json_dumps(d) == JsonText(d)
EmptyDict == [c \in {} |-> 0]
EmptyObjectText == JsonText(EmptyDict)          \* "{}"

\* float(main_budget) if main_budget not in (None, "") else None; None on ValueError.
\* Of the strings, those of digits parse.
coerce_main_budget(main_budget) ==
    IF is_None(main_budget) THEN NULL
    ELSE IF isinstance_int(main_budget) THEN Some(main_budget.int)
    ELSE IF main_budget.str = <<>> THEN NULL
    ELSE IF isdigit(main_budget.str) THEN Some(int_of_str(main_budget.str))
    ELSE NULL

coerce_category_limits(limits) ==
    IF is_None(limits) THEN EmptyObjectText
    ELSE IF isinstance_str(limits)
         THEN IF json_loads_ok(limits.str) THEN limits.str ELSE EmptyObjectText
         ELSE json_dumps(limits.dict)

\* DELETE FROM budgets WHERE username = ?: the rows that stay
set_budget_keeps_old(username) == budgets

set_budget_kept(username) == {r \in budgets : r.username # username}

set_budget(username, main_budget, limits) ==
    /\ budgets_seq < MaxBudgetRows
    /\ LET mb_val   == coerce_main_budget(main_budget)
           cat_json == coerce_category_limits(limits)
       IN budgets' = set_budget_kept(username) \cup
                       {[id |-> budgets_seq + 1, username |-> username,
                         main_budget |-> mb_val, category_limits_json |-> cat_json]}
    /\ budgets_seq' = budgets_seq + 1
    /\ last' = [op |-> "set_budget", username |-> username,
                main_budget |-> main_budget, category_limits |-> limits, ret |-> TRUE]
    /\ UNCHANGED <<has_bcrypt, userVars, familyVars, expenseVars, alertVars, notifyVars, connVars>>

\* ORDER BY id DESC LIMIT 1
load_budget_from(table, username) ==
    LET rows == {r \in table : r.username = username} IN
    IF rows = {}
    THEN [main_budget |-> NULL, category_limits_json |-> EmptyObjectText]
    ELSE LET row == CHOOSE r \in rows : \A o \in rows : o.id <= r.id IN
         [main_budget |-> row.main_budget,
          category_limits_json |-> row.category_limits_json]

load_budget_result(username) == load_budget_from(budgets, username)

load_budget(username) ==
    /\ last' = [op |-> "load_budget", username |-> username,
                ret |-> load_budget_result(username)]
    /\ UNCHANGED <<has_bcrypt, userVars, familyVars, budgetVars, expenseVars, alertVars, notifyVars, connVars>>

(***************************************************************************)
(* set_budget statement by statement (db.py:514-530), for calls that run  *)
(* at the same time in several sessions.  Each call has its own           *)
(* connection.  The first writing statement of a connection opens a       *)
(* transaction and takes the write lock of the database file, which one   *)
(* connection holds at a time; a connection that finds it taken gives up  *)
(* when its busy timeout has passed ("database is locked").  What a       *)
(* transaction wrote is in the table when it commits; closing without a   *)
(* commit discards it.                                                    *)
(***************************************************************************)
Procs == {1, 2}
Idle == [pc |-> "idle"]

Running == {p \in Procs : conn[p].pc # "idle"}

\* The write lock can be taken by connection p.
db_lock_free_always(p) == TRUE

db_lock_free(p) == db_lock = NULL

\* get_conn(), after the coercion of the arguments
set_budget_connect(p, username, main_budget, limits) ==
    /\ conn[p].pc = "idle"
    /\ budgets_seq + Cardinality(Running) < MaxBudgetRows
    /\ conn' = [conn EXCEPT ![p] =
                  [pc |-> "connected", username |-> username,
                   main_budget |-> main_budget, category_limits |-> limits,
                   mb_val |-> coerce_main_budget(main_budget),
                   cat_json |-> coerce_category_limits(limits),
                   deleted |-> {}, inserted |-> NULL,
                   \* history: the rows inserted into budgets when the call began
                   began_seq |-> budgets_seq]]
    /\ last' = [op |-> "set_budget_connect", proc |-> p]
    /\ UNCHANGED <<has_bcrypt, userVars, familyVars, budgetVars, expenseVars, alertVars,
                   notifyVars, db_lock>>

\* DELETE FROM budgets WHERE username = ?
set_budget_delete(p) ==
    /\ conn[p].pc = "connected"
    /\ db_lock_free(p)
    /\ db_lock' = Some(p)
    /\ conn' = [conn EXCEPT ![p].pc = "deleted",
                            ![p].deleted = {r \in budgets : r.username = conn[p].username}]
    /\ last' = [op |-> "set_budget_delete", proc |-> p]
    /\ UNCHANGED <<has_bcrypt, userVars, familyVars, budgetVars, expenseVars, alertVars,
                   notifyVars>>

\* The DELETE raises OperationalError: closed without a commit, False.
set_budget_locked(p) ==
    /\ conn[p].pc = "connected"
    /\ ~db_lock_free(p)
    /\ conn' = [conn EXCEPT ![p] = Idle]
    /\ last' = [op |-> "set_budget", proc |-> p, username |-> conn[p].username,
                main_budget |-> conn[p].main_budget,
                category_limits |-> conn[p].category_limits, ret |-> FALSE,
                overlapped |-> TRUE]
    /\ UNCHANGED <<has_bcrypt, userVars, familyVars, budgetVars, expenseVars, alertVars,
                   notifyVars, db_lock>>

\* INSERT INTO budgets (username, main_budget, category_limits_json)
set_budget_insert(p) ==
    /\ conn[p].pc = "deleted"
    /\ conn' = [conn EXCEPT ![p].pc = "inserted",
                            ![p].inserted =
                               Some([id |-> budgets_seq + 1, username |-> conn[p].username,
                                     main_budget |-> conn[p].mb_val,
                                     category_limits_json |-> conn[p].cat_json])]
    /\ last' = [op |-> "set_budget_insert", proc |-> p]
    /\ UNCHANGED <<has_bcrypt, userVars, familyVars, budgetVars, expenseVars, alertVars,
                   notifyVars, db_lock>>

\* conn.commit(); conn.close(); return True
set_budget_commit(p) ==
    /\ conn[p].pc = "inserted"
    /\ budgets' = (budgets \ conn[p].deleted) \cup conn[p].inserted
    /\ budgets_seq' = IF TheValue(conn[p].inserted).id > budgets_seq
                      THEN TheValue(conn[p].inserted).id ELSE budgets_seq
    /\ db_lock' = IF db_lock = Some(p) THEN NULL ELSE db_lock
    /\ conn' = [conn EXCEPT ![p] = Idle]
    /\ last' = [op |-> "set_budget", proc |-> p, username |-> conn[p].username,
                main_budget |-> conn[p].main_budget,
                category_limits |-> conn[p].category_limits, ret |-> TRUE,
                \* history: another call committed while this one was running
                overlapped |-> conn[p].began_seq < budgets_seq]
    /\ UNCHANGED <<has_bcrypt, userVars, familyVars, expenseVars, alertVars, notifyVars>>

(***************************************************************************)
(* Expenses and the category breakdown (db.py:421-461, 636-661).  Of an   *)
(* expense row the model keeps the id, the owner, the date, the amount    *)
(* and the category.  A date is the string strftime("%Y-%m-%d") or the    *)
(* date input of the pages produces.                                      *)
(***************************************************************************)
\* f"{n:02d}"
format_02d(n) == IF Len(str_of_int(n)) < 2 THEN <<"0">> \o str_of_int(n) ELSE str_of_int(n)

\* "%Y-%m-%d" of a date with a four-digit year
format_date(y, m, d) ==
    str_of_int(y) \o <<"-">> \o format_02d(m) \o <<"-">> \o format_02d(d)

\* SQLite substr(s, start, length), 1-based
substr(s, start, length) ==
    SubSeq(s, start, IF start + length - 1 > Len(s) THEN Len(s) ELSE start + length - 1)

\* float(amount), 0.0 when it raises.  Of the strings, those of digits parse.
coerce_amount(amount) ==
    IF isinstance_int(amount) THEN amount.int
    ELSE IF isinstance_str(amount) /\ isdigit(amount.str) THEN int_of_str(amount.str)
    ELSE 0

add_expense(username, amount, category, date) ==
    /\ expenses_seq < MaxExpenseRows
    /\ expenses' = expenses \cup
                     {[id |-> expenses_seq + 1, username |-> username, date |-> date,
                       amount |-> coerce_amount(amount), category |-> category]}
    /\ expenses_seq' = expenses_seq + 1
    /\ last' = [op |-> "add_expense", username |-> username, amount |-> amount,
                category |-> category, date |-> date, ret |-> TRUE]
    /\ UNCHANGED <<has_bcrypt, userVars, familyVars, budgetVars, alertVars, notifyVars, connVars>>

\* The characters of a date in the order in which SQLite compares them.
DateChars == <<"-", "0", "1", "2", "3", "4", "5", "6", "7", "8", "9">>
char_rank(c) == CHOOSE i \in 1..Len(DateChars) : DateChars[i] = c

\* a < b for two TEXT values (binary collation)
RECURSIVE text_less(_, _)
text_less(a, b) ==
    IF Len(b) = 0 THEN FALSE
    ELSE IF Len(a) = 0 THEN TRUE
    ELSE IF a[1] = b[1] THEN text_less(Tail(a), Tail(b))
    ELSE char_rank(a[1]) < char_rank(b[1])

\* ORDER BY date DESC, id DESC
RECURSIVE order_by_date_desc(_)
order_by_date_desc(rows) ==
    IF rows = {} THEN <<>>
    ELSE LET first == CHOOSE r \in rows : \A o \in rows :
                        \/ text_less(o.date, r.date)
                        \/ o.date = r.date /\ o.id <= r.id
         IN <<first>> \o order_by_date_desc(rows \ {first})

\* SELECT id, date, amount, category, ... FROM expenses WHERE username = ?
load_expenses_result(username) ==
    LET rows == order_by_date_desc({r \in expenses : r.username = username}) IN
    [i \in 1..Len(rows) |-> [id |-> rows[i].id, date |-> rows[i].date,
                             amount |-> rows[i].amount, category |-> rows[i].category]]

load_expenses(username) ==
    /\ last' = [op |-> "load_expenses", username |-> username,
                ret |-> load_expenses_result(username)]
    /\ UNCHANGED <<has_bcrypt, userVars, familyVars, budgetVars, expenseVars, alertVars,
                   notifyVars, connVars>>

RECURSIVE sum_amount(_)
sum_amount(rows) ==
    IF rows = {} THEN 0
    ELSE LET r == CHOOSE x \in rows : TRUE IN r.amount + sum_amount(rows \ {r})

\* WHERE username = ? AND substr(date, 1, 4) = ? AND substr(date, 6, 2) = ?
breakdown_rows(username, year, month) ==
    {r \in expenses : /\ r.username = username
                      /\ substr(r.date, 1, 4) = str_of_int(year)
                      /\ substr(r.date, 6, 2) = format_02d(month)}

\* The categories of the model in the order GROUP BY yields its groups
\* (SQLite sorts them, binary collation).
CategoryOrder == <<"", "Food", "Other">>

dict_set(d, k, v) == [x \in DOMAIN d \cup {k} |-> IF x = k THEN v ELSE d[x]]

\* The loop over the result rows: out[r["category"] or "Other"] = float(r["total"] or 0.0)
RECURSIVE breakdown_loop(_, _, _)
breakdown_loop(rows, i, out) ==
    IF i > Len(CategoryOrder) THEN out
    ELSE LET category == CategoryOrder[i]
             group == {r \in rows : r.category = category}
             cat == IF category = "" THEN "Other" ELSE category
         IN IF group = {} THEN breakdown_loop(rows, i + 1, out)
            ELSE breakdown_loop(rows, i + 1, dict_set(out, cat, sum_amount(group)))

category_breakdown_result(username, year, month) ==
    breakdown_loop(breakdown_rows(username, year, month), 1, EmptyDict)

category_breakdown(username, year, month) ==
    /\ last' = [op |-> "category_breakdown", username |-> username, year |-> year,
                month |-> month, ret |-> category_breakdown_result(username, year, month)]
    /\ UNCHANGED <<has_bcrypt, userVars, familyVars, budgetVars, expenseVars, alertVars, notifyVars, connVars>>

(***************************************************************************)
(* The budget alerts of the dashboard (1_Dashboard.py:46-93).             *)
(* category_limits is the parsed dict as the sequence of its items;       *)
(* cat_spend is the dict category_breakdown returned.  A percentage is    *)
(* the fraction [num, den] with den > 0, compared exactly.                *)
(***************************************************************************)
ExceededPercent == 100
NearingPercent  == 80

\* safe_float(value, default): the default for None and for what float() rejects
safe_float(value, default) ==
    IF is_None(value) THEN default
    ELSE IF isinstance_int(value) THEN value.int
    ELSE IF isinstance_str(value) /\ isdigit(value.str) THEN int_of_str(value.str)
    ELSE default

(***************************************************************************)
(* The month's total, computed twice: by get_monthly_family_expenses      *)
(* (db.py:821-856) with one SUM over the month's rows, and by the         *)
(* dashboard (1_Dashboard.py:64-65) from the values of the breakdown.     *)
(***************************************************************************)
\* SELECT IFNULL(SUM(amount), 0) ... WHERE username = ? AND substr(date, 1, 4) = ?
\* AND substr(date, 6, 2) = ?, for the year and month of datetime.now()
get_monthly_family_expenses_result(username, year, month) ==
    sum_amount({r \in expenses : /\ r.username = username
                                 /\ substr(r.date, 1, 4) = str_of_int(year)
                                 /\ substr(r.date, 6, 2) = format_02d(month)})

\* The call made in the given year and month.
get_monthly_family_expenses(username, year, month) ==
    /\ last' = [op |-> "get_monthly_family_expenses", username |-> username,
                year |-> year, month |-> month,
                ret |-> get_monthly_family_expenses_result(username, year, month)]
    /\ UNCHANGED <<has_bcrypt, userVars, familyVars, budgetVars, expenseVars, alertVars,
                   notifyVars, connVars>>

\* sum([safe_float(v, 0.0) for v in cat_spend.values()]) if cat_spend else 0.0
RECURSIVE monthly_spent(_)
monthly_spent(spend) ==
    IF DOMAIN spend = {} THEN 0
    ELSE LET c == CHOOSE x \in DOMAIN spend : TRUE
             rest == [x \in DOMAIN spend \ {c} |-> spend[x]]
         IN safe_float(IntValue(spend[c]), 0) + monthly_spent(rest)

\* cat_spend.get(cat, 0)
spend_get(cat) == IF cat \in DOMAIN cat_spend THEN cat_spend[cat] ELSE 0

\* (spent_val / limit_val) * 100
percent_of(spent_val, limit_val) == [num |-> spent_val * 100, den |-> limit_val]

\* pct >= k
percent_ge(pct, k) == pct.num >= k * pct.den

\* if limit_val <= 0: continue
limit_skipped(limit_val) == limit_val <= 0

is_exceeded(pct) == percent_ge(pct, ExceededPercent)

is_nearing_strict(pct) == ~percent_ge(pct, ExceededPercent) /\ pct.num > NearingPercent * pct.den

\* elif pct >= 80
is_nearing(pct) == ~is_exceeded(pct) /\ percent_ge(pct, NearingPercent)

RECURSIVE render_alerts_loop(_, _)
render_alerts_loop(i, acc) ==
    IF i > Len(category_limits) THEN acc
    ELSE LET cat       == category_limits[i][1]
             limit     == category_limits[i][2]
             limit_val == safe_float(limit, 0)
             spent_val == spend_get(cat)
         IN IF limit_skipped(limit_val) THEN render_alerts_loop(i + 1, acc)
            ELSE LET pct == percent_of(spent_val, limit_val) IN
                 IF is_exceeded(pct)
                 THEN render_alerts_loop(i + 1, Append(acc, [cat |-> cat, state |-> "exceeded"]))
                 ELSE IF is_nearing(pct)
                 THEN render_alerts_loop(i + 1, Append(acc, [cat |-> cat, state |-> "nearing"]))
                 ELSE render_alerts_loop(i + 1, acc)

render_alerts ==
    /\ last.op # "render_alerts"
    /\ alerts' = render_alerts_loop(1, <<>>)
    /\ last' = [op |-> "render_alerts"]
    /\ UNCHANGED <<has_bcrypt, userVars, familyVars, budgetVars, expenseVars,
                   category_limits, cat_spend, notifyVars, connVars>>

(***************************************************************************)
(* Alert dispatch (db.py:678-818).  A configuration file is absent,       *)
(* [missing |-> TRUE], holds text json.load rejects, [garbage |-> t], or  *)
(* holds a JSON object, [json |-> d] with d a function from keys to       *)
(* Python values.  The strings the code strips are sequences of           *)
(* characters.  What the network and the mail server answer is chosen     *)
(* with each call.                                                        *)
(***************************************************************************)
MissingFile == [missing |-> TRUE]
file_exists(f) == "missing" \notin DOMAIN f

\* str.strip(): leading and trailing blanks removed
RECURSIVE strip(_)
strip(s) ==
    IF Len(s) = 0 THEN s
    ELSE IF s[1] = " " THEN strip(Tail(s))
    ELSE IF s[Len(s)] = " " THEN strip(SubSeq(s, 1, Len(s) - 1))
    ELSE s

\* load_telegram_config(): {} stands for "json.load raised"
load_telegram_config_result ==
    IF ~file_exists(telegram_config)
    THEN Some(DictValue([k \in {"bot_token", "chat_id"} |-> StrValue(<<>>)]))
    ELSE IF json_loads_ok(telegram_config) THEN Some(DictValue(telegram_config.json))
    ELSE NULL

PostOutcomes == {"200", "500", "exception"}

\* The ways a call of send_telegram_alert can go: what it posted, if anything,
\* how the attempt ended and what it returned.  No way raises.
send_telegram_alert_results(message) ==
    IF load_telegram_config_result = NULL
    THEN {[posted |-> NULL, how |-> "error", ret |-> FALSE]}
    ELSE LET cfg     == TheValue(load_telegram_config_result)
             token   == dict_get(cfg, "bot_token", StrValue(<<>>))
             chat_id == dict_get(cfg, "chat_id", StrValue(<<>>))
         IN IF ~isinstance_str(token) \/ ~isinstance_str(chat_id)
            THEN {[posted |-> NULL, how |-> "error", ret |-> FALSE]}    \* no .strip()
            ELSE IF strip(token.str) = <<>> \/ strip(chat_id.str) = <<>>
            THEN {[posted |-> NULL, how |-> "skipped", ret |-> FALSE]}
            ELSE {[posted |-> Some([bot_token |-> strip(token.str),
                                    chat_id |-> strip(chat_id.str), text |-> message]),
                   how |-> o, ret |-> (o = "200")] : o \in PostOutcomes}

\* get_user_email(username)
get_user_email_never(username) == NULL

get_user_email(username) ==
    LET rows == {r \in users : r.username = username} IN
    IF rows = {} THEN NULL
    ELSE LET val == (CHOOSE r \in rows : TRUE).email IN
         IF val = "" THEN NULL ELSE Some(val)

MailOutcomes == {"sent", "exception"}

\* The ways a call of send_email_alert can go.  No way raises.
send_email_alert_results(to_addr, subject, body) ==
    IF ~smtp_configured
    THEN {[mailed |-> NULL, how |-> "not_configured", ret |-> FALSE]}
    ELSE {[mailed |-> Some([to |-> to_addr, subject |-> subject, body |-> body]),
           how |-> o, ret |-> (o = "sent")] : o \in MailOutcomes}

\* The message send_budget_alert composes (the time of day left out).
budget_alert_message(username, category, spent, limit) ==
    [username |-> username, category |-> category, spent |-> spent, limit |-> limit,
     status |-> IF spent >= limit THEN "OVER LIMIT" ELSE "NEAR LIMIT"]

send_budget_alert(username, category, spent, limit) ==
    /\ LET message == budget_alert_message(username, category, spent, limit)
           to_addr == get_user_email(username)
       IN \E tg \in send_telegram_alert_results(message) :
            IF to_addr # NULL
            THEN \E em \in send_email_alert_results(TheValue(to_addr), category, message) :
                   last' = [op |-> "send_budget_alert", username |-> username,
                            telegram |-> tg, email_called |-> TRUE, email |-> Some(em),
                            raised |-> FALSE]
            ELSE last' = [op |-> "send_budget_alert", username |-> username,
                          telegram |-> tg, email_called |-> FALSE, email |-> NULL,
                          raised |-> FALSE]
    /\ UNCHANGED <<has_bcrypt, userVars, familyVars, budgetVars, expenseVars, alertVars,
                   notifyVars, connVars>>

\* The chat id get_user_contacts resolves: {} is None.
\* Step 2, the per-user mapping: data.get(username), None when anything raises.
per_user_chat_id(username) ==
    IF file_exists(telegram_users) /\ json_loads_ok(telegram_users)
       /\ username \in DOMAIN telegram_users.json
    THEN Some(telegram_users.json[username])
    ELSE NULL

\* Step 3, the fallback: the chat_id of the global file when not blank.
global_chat_id ==
    IF load_telegram_config_result = NULL THEN NULL
    ELSE LET chat_id == dict_get(TheValue(load_telegram_config_result), "chat_id",
                                 StrValue(<<>>))
         IN IF ~isinstance_str(chat_id) THEN NULL
            ELSE IF strip(chat_id.str) = <<>> THEN NULL
            ELSE Some(chat_id)

get_user_contacts_result(username) ==
    LET mine == per_user_chat_id(username) IN
    [email |-> get_user_email(username),
     telegram_chat_id |-> IF mine = NULL \/ is_falsy(TheValue(mine))
                          THEN global_chat_id ELSE mine]

get_user_contacts(username) ==
    /\ last' = [op |-> "get_user_contacts", username |-> username,
                ret |-> get_user_contacts_result(username)]
    /\ UNCHANGED <<has_bcrypt, userVars, familyVars, budgetVars, expenseVars, alertVars,
                   notifyVars, connVars>>

\* The clock: time passes between calls, first within the second, then to the next.
Tick ==
    /\ now.sec < MaxTime
    /\ now' = IF now.frac THEN [sec |-> now.sec + 1, frac |-> FALSE]
              ELSE [now EXCEPT !.frac = TRUE]
    /\ last' = [op |-> "tick"]
    /\ UNCHANGED <<has_bcrypt, users, users_seq, password_set, token_seq, familyVars, budgetVars,
                   expenseVars, alertVars, notifyVars, connVars>>

(***************************************************************************)
(* The state after init_db on an empty database file (db.py:63-127).      *)
(***************************************************************************)
EmptyTables ==
    /\ users = {} /\ users_seq = 0 /\ token_seq = 0
    /\ password_set = [u \in Usernames |-> NULL]
    /\ family = {} /\ family_seq = 0
    /\ goals = {} /\ goals_seq = 0
    /\ budgets = {} /\ budgets_seq = 0
    /\ expenses = {} /\ expenses_seq = 0

NoDashboard ==
    /\ category_limits = <<>>
    /\ cat_spend = <<>>
    /\ alerts = <<>>

\* No configuration file, no SMTP settings.
NoNotifications ==
    /\ telegram_config = MissingFile
    /\ telegram_users = MissingFile
    /\ smtp_configured = FALSE

\* No set_budget call is running.
NoConnections ==
    /\ conn = [p \in Procs |-> Idle]
    /\ db_lock = NULL

Init ==
    /\ has_bcrypt \in BOOLEAN
    /\ EmptyTables
    /\ NoDashboard
    /\ NoNotifications
    /\ NoConnections
    /\ now = [sec |-> 1, frac |-> FALSE]
    /\ last = [op |-> "init_db"]

\* Registration, login and password change.
NextLogin ==
    \/ \E username \in Usernames, email \in Emails, password \in Passwords :
         create_user(username, email, password)
    \/ \E username \in Usernames, password \in Passwords :
         login_user(username, password)
    \/ \E username \in Usernames, password \in Passwords :
         reset_password(username, password)

SpecLogin == Init /\ [][NextLogin]_vars

\* Registration of users who may already hold a reset token.
NextRegister ==
    \/ \E username \in Usernames, email \in Emails, password \in Passwords :
         create_user(username, email, password)
    \/ \E id \in Usernames \cup Emails : create_reset_token(id, 1)

SpecRegister == Init /\ [][NextRegister]_vars

\* The password reset flow: register, ask for a token, verify it, reset.
\* One user registers without an email, the other with one.
Registrations == {<<"alice", "">>, <<"bob", "e1">>}

NextTokens ==
    \/ \E reg \in Registrations : create_user(reg[1], reg[2], "p1")
    \/ \E id \in Usernames \cup Emails, ttl \in TTLs :
         create_reset_token(id, ttl)
    \/ \E token \in Tokens : verify_reset_token(token)
    \/ \E username \in Usernames \ {""} : clear_reset_token(username)
    \/ \E username \in Usernames \ {""} : reset_password(username, "p2")
    \/ Tick

SpecTokens == Init /\ [][NextTokens]_vars

\* Family members and goals: add and delete.
NextFamily ==
    \/ \E username \in FamilyUsers, member_name \in MemberNames :
         add_family_member(username, member_name)
    \/ \E username \in FamilyUsers, x \in MemberIdentifiers :
         delete_family_member(username, x)
    \/ \E username \in FamilyUsers, goal_name \in GoalNames :
         add_goal(username, goal_name, Some(100), Some(6))
    \/ \E username \in FamilyUsers, x \in GoalIdentifiers :
         delete_goal(username, x)

SpecFamily == Init /\ [][NextFamily]_vars

\* Budgets: set and read back.
FoodLimit  == [c \in {"Food"} |-> 100]
TwoLimits  == [c \in {"Food", "Rent"} |-> IF c = "Food" THEN 50 ELSE 0]
MainBudgetInputs ==
    {NoneValue, IntValue(500), StrValue(<<"7", "5">>), StrValue(<<"x">>)}
CategoryLimitInputs ==
    {NoneValue, DictValue(FoodLimit), StrValue(JsonText(TwoLimits)),
     StrValue(GarbageText("not json"))}

NextBudget ==
    \/ \E username \in FamilyUsers, main_budget \in MainBudgetInputs,
          limits \in CategoryLimitInputs :
         set_budget(username, main_budget, limits)
    \/ \E username \in FamilyUsers : load_budget(username)

SpecBudget == Init /\ [][NextBudget]_vars

\* Expenses: add, and break a month down by category.
Categories   == {"", "Food", "Other"}
Years        == {2024, 2025}
Months       == {5, 6}
Days         == {1, 15}
ExpenseDates == {format_date(2024, 5, 1), format_date(2025, 6, 15)}
AmountInputs == {IntValue(10), StrValue(<<"2", "5">>)}

NextExpenses ==
    \/ \E username \in FamilyUsers, amount \in AmountInputs, category \in Categories,
          date \in ExpenseDates :
         add_expense(username, amount, category, date)
    \/ \E username \in FamilyUsers, year \in Years, month \in Months :
         category_breakdown(username, year, month)

SpecExpenses == Init /\ [][NextExpenses]_vars

\* The dashboard: the page has loaded some category limits and some spend, and
\* renders its alerts.
LimitInputs == {NoneValue, IntValue(0), IntValue(-100), IntValue(5), IntValue(100),
                StrValue(<<"x">>)}
FoodSpends  == {0, 3, 4, 5, 79, 80, 99, 100, 120}
LimitDicts ==
    {<<<<"Food", l>>>> : l \in LimitInputs} \cup
    {<<<<"Food", l1>>, <<"Rent", l2>>>> : l1 \in LimitInputs, l2 \in LimitInputs}
SpendDicts ==
    {EmptyDict} \cup
    {[c \in {"Food"} |-> s] : s \in FoodSpends} \cup
    {[c \in {"Food", "Other"} |-> s] : s \in FoodSpends} \cup
    {[c \in {"Rent", "Other"} |-> s] : s \in FoodSpends}

InitAlerts ==
    /\ has_bcrypt \in BOOLEAN
    /\ EmptyTables
    /\ now = [sec |-> 1, frac |-> FALSE]
    /\ category_limits \in LimitDicts
    /\ cat_spend \in SpendDicts
    /\ alerts = <<>>
    /\ NoNotifications
    /\ NoConnections
    /\ last = [op |-> "page_load"]

NextAlerts == render_alerts

SpecAlerts == InitAlerts /\ [][NextAlerts]_vars

\* The family editor: single members are added, the whole list is replaced and
\* read back.
RowDict(member_name, is_head) ==
    DictValue([k \in {"member_name", "is_head"} |->
                 IF k = "member_name" THEN member_name ELSE is_head])
RowDictNoHead(member_name) == DictValue([k \in {"member_name"} |-> member_name])

IsHeadInputs ==
    {BoolValue(TRUE), BoolValue(FALSE), IntValue(1), NoneValue,
     StrValue(<<"Y", "E", "S">>), StrValue(<<"O", "n">>), StrValue(<<"t", "r", "u", "e">>),
     StrValue(<<" ", "y", "e", "s">>)}
FamilyRowInputs ==
    {RowDict(StrValue(<<"a", "n", "n">>), h) : h \in IsHeadInputs}
      \cup {RowDictNoHead(NoneValue), NoneValue}
SecondRowInputs ==
    {RowDict(StrValue(<<"a", "n", "n">>), StrValue(<<" ", "y", "e", "s">>)),
     RowDictNoHead(NoneValue), NoneValue}
FamilyRowsInputs ==
    {<<>>} \cup {<<r>> : r \in FamilyRowInputs}
           \cup {<<r1, r2>> : r1 \in FamilyRowInputs, r2 \in SecondRowInputs}

NextSaveFamily ==
    \/ \E username \in FamilyUsers : add_family_member(username, <<"o", "l", "d">>)
    \/ \E username \in FamilyUsers, rows \in FamilyRowsInputs :
         save_family("fam", username, rows)
    \/ \E username \in FamilyUsers : load_family(username)

SpecSaveFamily == Init /\ [][NextSaveFamily]_vars

\* Alerts: users register, the dashboard sends budget alerts and resolves
\* contacts, under every configuration of the two files and of SMTP.
ConfigDict(bot_token, chat_id) ==
    JsonText([k \in {"bot_token", "chat_id"} |-> IF k = "bot_token" THEN bot_token ELSE chat_id])
TelegramConfigs ==
    {MissingFile, GarbageText("{bad"),
     ConfigDict(StrValue(<<"T">>), StrValue(<<"9", "9">>)),
     ConfigDict(StrValue(<<"T">>), StrValue(<<" ", "9", "9", " ">>)),
     ConfigDict(StrValue(<<"T">>), StrValue(<<" ">>)),
     ConfigDict(StrValue(<<>>), StrValue(<<"9", "9">>)),
     ConfigDict(StrValue(<<"T">>), IntValue(99)),
     JsonText([k \in {"bot_token"} |-> StrValue(<<"T">>)])}
TelegramUserMaps ==
    {MissingFile, GarbageText("{bad"),
     JsonText([u \in {"alice"} |-> StrValue(<<"1", "1">>)]),
     JsonText([u \in {"bob"} |-> StrValue(<<"2", "2">>)]),
     JsonText([u \in {"bob"} |-> StrValue(<<" ">>)]),
     JsonText([u \in {"bob"} |-> StrValue(<<>>)])}
SpentInputs == {80, 120}

InitNotify ==
    /\ has_bcrypt \in BOOLEAN
    /\ EmptyTables
    /\ NoDashboard
    /\ NoConnections
    /\ now = [sec |-> 1, frac |-> FALSE]
    /\ telegram_config \in TelegramConfigs
    /\ telegram_users \in TelegramUserMaps
    /\ smtp_configured \in BOOLEAN
    /\ last = [op |-> "init_db"]

NextNotify ==
    \/ \E reg \in Registrations : create_user(reg[1], reg[2], "p1")
    \/ \E username \in FamilyUsers, spent \in SpentInputs :
         send_budget_alert(username, "Food", spent, 100)
    \/ \E username \in FamilyUsers : get_user_contacts(username)

SpecNotify == InitNotify /\ [][NextNotify]_vars

\* Budgets set from two sessions at once.
ConcurrentMainBudgets == {IntValue(500), StrValue(<<"7", "5">>)}
ConcurrentLimits      == {NoneValue, DictValue(FoodLimit)}

NextConcurrentBudget ==
    \/ \E p \in Procs, username \in FamilyUsers, main_budget \in ConcurrentMainBudgets,
          limits \in ConcurrentLimits :
         set_budget_connect(p, username, main_budget, limits)
    \/ \E p \in Procs : set_budget_delete(p)
    \/ \E p \in Procs : set_budget_locked(p)
    \/ \E p \in Procs : set_budget_insert(p)
    \/ \E p \in Procs : set_budget_commit(p)
    \/ \E username \in FamilyUsers : load_budget(username)

SpecConcurrentBudget == Init /\ [][NextConcurrentBudget]_vars

\* Goals added with any target amount and any number of months.
GoalTargetInputs == {NULL, Some(0), Some(-5), Some(100)}
GoalMonthInputs  == {NULL, Some(0), Some(-3), Some(6)}

NextGoals ==
    \/ \E username \in FamilyUsers, goal_name \in GoalNames,
          target_amount \in GoalTargetInputs, months \in GoalMonthInputs :
         add_goal(username, goal_name, target_amount, months)
    \/ \E username \in FamilyUsers, x \in GoalIdentifiers :
         delete_goal(username, x)

SpecGoals == Init /\ [][NextGoals]_vars

\* Two users at work in every table: family, goals, budgets and expenses.
TenantRows == family_seq + goals_seq + budgets_seq + expenses_seq
TenantNumericIds == {IntValue(1), IntValue(2), StrValue(<<"1">>)}
TenantRowsInputs ==
    {<<>>, <<RowDict(StrValue(<<"a", "n", "n">>), BoolValue(TRUE))>>}

NextTenants ==
    \/ \E username \in FamilyUsers :
         /\ TenantRows < MaxTenantRows
         /\ add_family_member(username, <<"a", "n", "n">>)
    \/ \E username \in FamilyUsers, rows \in TenantRowsInputs :
         /\ TenantRows + Len(rows) <= MaxTenantRows
         /\ save_family("fam", username, rows)
    \/ \E username \in FamilyUsers,
          x \in TenantNumericIds \cup {StrValue(<<"a", "n", "n">>)} :
         delete_family_member(username, x)
    \/ \E username \in FamilyUsers :
         /\ TenantRows < MaxTenantRows
         /\ add_expense(username, IntValue(10), "Food", format_date(2024, 5, 1))
    \/ \E username \in FamilyUsers :
         /\ TenantRows < MaxTenantRows
         /\ set_budget(username, IntValue(500), DictValue(FoodLimit))
    \/ \E username \in FamilyUsers :
         /\ TenantRows < MaxTenantRows
         /\ add_goal(username, <<"c", "a", "r">>, Some(100), Some(6))
    \/ \E username \in FamilyUsers,
          x \in TenantNumericIds \cup {StrValue(<<"c", "a", "r">>)} :
         delete_goal(username, x)
    \/ \E username \in FamilyUsers : load_family(username)
    \/ \E username \in FamilyUsers : load_expenses(username)
    \/ \E username \in FamilyUsers : load_budget(username)
    \/ \E username \in FamilyUsers : load_goals(username)
    \/ \E username \in FamilyUsers : category_breakdown(username, 2024, 5)

SpecTenants == Init /\ [][NextTenants]_vars

\* The month's spend: expenses are added, broken down by category and totalled.
NextMonthly ==
    \/ \E username \in FamilyUsers, amount \in AmountInputs, category \in Categories,
          date \in ExpenseDates :
         add_expense(username, amount, category, date)
    \/ \E username \in FamilyUsers, year \in Years, month \in Months :
         category_breakdown(username, year, month)
    \/ \E username \in FamilyUsers, year \in Years, month \in Months :
         get_monthly_family_expenses(username, year, month)

SpecMonthly == Init /\ [][NextMonthly]_vars

(***************************************************************************)
(* C1.  There is at most one users row per username, and a create_user    *)
(* call for a username that already has a row returns False and leaves    *)
(* the users table (email, password hash, reset token and reset expiry of *)
(* the existing row included) as it was.                                  *)
(***************************************************************************)
C1_OneRowPerUsername ==
    \A r1, r2 \in users : r1.username = r2.username => r1 = r2

C1_DuplicateLeavesTable ==
    (/\ last'.op = "create_user"
     /\ \E r \in users : r.username = last'.username)
    => (last'.ret = FALSE /\ users' = users)

\* C1: one row per username always, and every create_user step for an existing
\* username returns False and leaves the users table unchanged.
C1_CreateUserUnique ==
    /\ []C1_OneRowPerUsername
    /\ [][C1_DuplicateLeavesTable]_vars

\* A second registration of an existing username, with another email and another
\* password, was refused; the existing row holds a reset token.
C1_Witness ==
    /\ last.op = "create_user"
    /\ last.ret = FALSE
    /\ last.password # ""
    /\ \E r \in users : /\ r.username = last.username
                        /\ r.email # last.email
                        /\ ~verify_password(last.password, r.password_hash)
                        /\ r.reset_token # NULL
                        /\ r.reset_expiry # NULL

(***************************************************************************)
(* C2.  login_user(u, p) returns True exactly when u has a row, p is not  *)
(* empty and p is the password u was last given (by create_user or, since *)
(* then, by the latest reset_password).  As first stated, without "p is   *)
(* not empty", the claim fails: reset_password(u, "") stores the empty    *)
(* hash, which no password verifies against.                              *)
(***************************************************************************)
LatestPasswordIs(u, p) ==
    /\ \E r \in users : r.username = u
    /\ password_set[u] # NULL
    /\ TheValue(password_set[u]).password = p

\* C2 as first stated: login succeeds exactly with the latest password, the empty
\* one included.
C2_LoginOriginal ==
    /\ \A u \in Usernames, p \in Passwords :
         login_user_result(u, p) = LatestPasswordIs(u, p)
    /\ last.op = "login_user" =>
         last.ret = LatestPasswordIs(last.username, last.password)

\* C2, amended: login succeeds exactly with the latest password when it is not empty.
C2_LoginLatestPassword ==
    /\ \A u \in Usernames, p \in Passwords :
         login_user_result(u, p) = (p # "" /\ LatestPasswordIs(u, p))
    /\ last.op = "login_user" =>
         last.ret = (last.password # "" /\ LatestPasswordIs(last.username, last.password))

\* A login with the password of a reset succeeded, and the registration password
\* no longer logs in.
C2_Witness ==
    /\ last.op = "login_user"
    /\ last.ret = TRUE
    /\ TheValue(password_set[last.username]).by = "reset_password"
    /\ \E q \in Passwords \ {"", last.password} : ~login_user_result(last.username, q)

(***************************************************************************)
(* C3.  verify_reset_token(t) returns the user t is stored for when the   *)
(* time is not after the expiry stored with t, and None when t is stored  *)
(* for no user or the time is after that expiry.  The code breaks this    *)
(* when the stored expiry is 0: `if expiry and ...` takes 0 for "no       *)
(* expiry", and the token is accepted at every later time.                *)
(***************************************************************************)
C3_VerifyResetToken ==
    last.op = "verify_reset_token" =>
      LET rows == {r \in users : r.reset_token = Some(last.token)} IN
      /\ rows = {} => last.ret = NULL
      /\ \A r \in rows : \A expiry \in r.reset_expiry :
           /\ ~time_after(expiry) => last.ret = Some(r.username)
           /\ time_after(expiry) => last.ret = NULL

(***************************************************************************)
(* C4.  reset_password(u, p) returns True; right after it every row of u  *)
(* holds a hash of p and neither a reset token nor an expiry, and no      *)
(* token that was stored for u before the call is accepted by             *)
(* verify_reset_token.                                                     *)
(***************************************************************************)
C4_AfterReset ==
    last'.op = "reset_password" =>
      /\ last'.ret = TRUE
      /\ \A r \in users' : r.username = last'.username =>
           /\ r.password_hash \in {hash_password(last'.new_password, salt) : salt \in Salts}
           /\ r.reset_token = NULL
           /\ r.reset_expiry = NULL
      /\ \A r \in users : r.username = last'.username =>
           \A t \in r.reset_token : (verify_reset_token_results(t) = {NULL})'
      /\ \A r \in users' : r.username # last'.username => r \in users

\* C4: every reset_password step stores the new hash and clears token and expiry.
C4_ResetPasswordClearsToken == [][C4_AfterReset]_vars

\* A reset of the password of a user who held a token that was still accepted
\* a moment ago (it has not expired).
C4_Witness ==
    /\ last.op = "reset_password"
    /\ last.had_tokens # {}
    /\ \E r \in users : /\ r.username = last.username
                        /\ r.password_hash = hash_password("p2", "s1")
    /\ \A t \in last.had_tokens : verify_reset_token_results(t) = {NULL}

(***************************************************************************)
(* C5.  create_reset_token(identifier) returns None unless identifier is  *)
(* the username of a user or an email address some user supplied at       *)
(* registration.  The code breaks this for the empty identifier: a user   *)
(* registered without an email is stored with email "" and matches it.    *)
(***************************************************************************)
IdentifiesUser(r, identifier) ==
    \/ r.username = identifier
    \/ r.email # "" /\ r.email = identifier

\* C5: create_reset_token returns a token only for a user the identifier names.
C5_TokenOnlyForIdentifiedUser ==
    last.op = "create_reset_token" =>
      /\ (~\E r \in users : IdentifiesUser(r, last.email_or_username)) => last.ret = NULL
      /\ \A t \in last.ret :
           \E r \in users : /\ r.reset_token = Some(t)
                            /\ IdentifiesUser(r, last.email_or_username)

(***************************************************************************)
(* C9.  delete_family_member(u, x): when x is an int, or a str of digits  *)
(* only, it removes exactly the family row of u whose id is that number;  *)
(* when x is any other str it removes all rows of u whose member_name is  *)
(* x; every other row is left unchanged.  As first stated (delete by name *)
(* works for any member name stored for u) the claim fails for a member   *)
(* whose name is a string of digits: the name is taken for an id.         *)
(***************************************************************************)
Removed == family \ family'

C9_DeleteStep ==
    last'.op = "delete_family_member" =>
      LET u == last'.username
          x == last'.identifier
      IN /\ family' \subseteq family
         /\ isinstance_int(x) =>
              Removed = {r \in family : r.username = u /\ r.id = x.int}
         /\ (isinstance_str(x) /\ isdigit(x.str)) =>
              Removed = {r \in family : r.username = u /\ r.id = int_of_str(x.str)}
         /\ (isinstance_str(x) /\ ~isdigit(x.str)) =>
              Removed = {r \in family : r.username = u /\ r.member_name = x.str}

\* C9, amended: digit strings are ids; any other string deletes by name.
C9_DeleteFamilyMember == [][C9_DeleteStep]_vars

C9_OriginalStep ==
    last'.op = "delete_family_member" =>
      LET u == last'.username
          x == last'.identifier
      IN /\ family' \subseteq family
         /\ isinstance_int(x) =>
              Removed = {r \in family : r.username = u /\ r.id = x.int}
         /\ (/\ isinstance_str(x)
             /\ \E r \in family : r.username = u /\ r.member_name = x.str) =>
              Removed = {r \in family : r.username = u /\ r.member_name = x.str}

\* C9 as first stated: a delete by any stored member name removes the rows of that name.
C9_DeleteByAnyStoredName == [][C9_OriginalStep]_vars

\* A delete by name removed two rows of the user and left the row of the same
\* name that another user owns.
C9_Witness ==
    /\ last.op = "delete_family_member"
    /\ isinstance_str(last.identifier)
    /\ last.rowcount = 2
    /\ \E r \in family : r.username # last.username /\ r.member_name = last.identifier.str

(***************************************************************************)
(* C10.  delete_family_member and delete_goal return True if and only if  *)
(* the call removed at least one row: False when the identifier matches   *)
(* no row of that user (also when it matches a row of another user), True *)
(* whenever the table has fewer rows after the call.                      *)
(***************************************************************************)
C10_DeleteStep ==
    /\ last'.op = "delete_family_member" =>
         /\ last'.ret = (Cardinality(family') < Cardinality(family))
         /\ last'.ret = (family' # family)
         /\ (~\E r \in family : /\ r.username = last'.username
                                /\ IF is_numeric_identifier(last'.identifier)
                                   THEN r.id = int_of(last'.identifier)
                                   ELSE r.member_name = last'.identifier.str)
              => last'.ret = FALSE
    /\ last'.op = "delete_goal" =>
         /\ last'.ret = (Cardinality(goals') < Cardinality(goals))
         /\ last'.ret = (goals' # goals)

\* C10: on every delete step the result is True exactly when a row was removed.
C10_DeleteReturnsWhetherRemoved == [][C10_DeleteStep]_vars

\* A delete by the id of a row that another user owns returned False, and the row
\* is still there.
C10_Witness ==
    /\ last.op \in {"delete_family_member", "delete_goal"}
    /\ isinstance_int(last.identifier)
    /\ last.ret = FALSE
    /\ \E r \in family \cup goals : r.id = last.identifier.int /\ r.username # last.username
    /\ last.op = "delete_goal" =>
         \E r \in goals : r.id = last.identifier.int /\ r.username # last.username
    /\ last.op = "delete_family_member" =>
         \E r \in family : r.id = last.identifier.int /\ r.username # last.username

(***************************************************************************)
(* C6.  After set_budget calls for user u the budgets table holds exactly *)
(* one row for u, and load_budget(u) returns the main budget and the      *)
(* category limits of the last set_budget call for u (a number reads back *)
(* as that number and a dict as its JSON text; None, "" and an            *)
(* unparsable main budget read back as None, None and an unparsable       *)
(* limits text as "{}"); no other call changes what load_budget(u)        *)
(* returns.  A user with no set_budget call has no row and reads back     *)
(* main_budget None and "{}".                                             *)
(***************************************************************************)
BudgetRowsOf(u) == {r \in budgets : r.username = u}

C6_OneRowPerUser ==
    \A u \in FamilyUsers :
      /\ Cardinality(BudgetRowsOf(u)) <= 1
      /\ BudgetRowsOf(u) = {} =>
           load_budget_result(u) = [main_budget |-> NULL,
                                    category_limits_json |-> EmptyObjectText]

C6_SetBudgetStep ==
    /\ last'.op = "set_budget" =>
         LET u  == last'.username
             mb == last'.main_budget
             cl == last'.category_limits
             got == load_budget_from(budgets', u)
         IN /\ last'.ret = TRUE
            /\ isinstance_int(mb) => got.main_budget = Some(mb.int)
            /\ isinstance_str(mb) /\ mb.str = <<"7", "5">> => got.main_budget = Some(75)
            /\ is_None(mb) \/ (isinstance_str(mb) /\ mb.str = <<"x">>) =>
                 got.main_budget = NULL
            /\ "dict" \in DOMAIN cl => got.category_limits_json = JsonText(cl.dict)
            /\ isinstance_str(cl) /\ json_loads_ok(cl.str) =>
                 got.category_limits_json = cl.str
            /\ is_None(cl) \/ (isinstance_str(cl) /\ ~json_loads_ok(cl.str)) =>
                 got.category_limits_json = EmptyObjectText
            /\ \A o \in FamilyUsers \ {u} :
                 load_budget_from(budgets', o) = load_budget_from(budgets, o)
    /\ last'.op # "set_budget" =>
         \A u \in FamilyUsers : load_budget_from(budgets', u) = load_budget_from(budgets, u)

\* C6: at most one budgets row per user always, and every set_budget step makes
\* load_budget return its values.
C6_BudgetReplace ==
    /\ []C6_OneRowPerUser
    /\ [][C6_SetBudgetStep]_vars

\* The second of two set_budget calls for the same user: its row is the only row,
\* the row of the first call is gone.
C6_Witness ==
    /\ last.op = "set_budget"
    /\ budgets_seq = 2
    /\ budgets = {[id |-> 2, username |-> last.username, main_budget |-> Some(75),
                   category_limits_json |-> JsonText(FoodLimit)]}

(***************************************************************************)
(* C7.  category_breakdown(u, y, m) maps each category c to the sum of    *)
(* the amounts of exactly the expenses of u with category c dated in year *)
(* y, month m, and a category with no such expense is no key of the       *)
(* result.  The code breaks this for expenses stored with the empty       *)
(* category: their total is filed under "Other", where the total of the   *)
(* expenses whose category is "Other" then overwrites it.                 *)
(***************************************************************************)
DatedIn(r, y, m) == \E d \in Days : r.date = format_date(y, m, d)

\* C7: the result of category_breakdown maps each category to the sum of its own
\* expenses of the month, and has no other key.
C7_BreakdownSumsPerCategory ==
    last.op = "category_breakdown" =>
      \A c \in Categories :
        LET mine == {r \in expenses : /\ r.username = last.username
                                      /\ r.category = c
                                      /\ DatedIn(r, last.year, last.month)}
        IN IF mine = {}
           THEN c \notin DOMAIN last.ret
           ELSE c \in DOMAIN last.ret /\ last.ret[c] = sum_amount(mine)

\* Apart from the empty category and "Other", the breakdown is the sum the claim states.
C7_NamedCategoriesSummed ==
    last.op = "category_breakdown" =>
      \A c \in Categories \ {"", "Other"} :
        LET mine == {r \in expenses : /\ r.username = last.username
                                      /\ r.category = c
                                      /\ DatedIn(r, last.year, last.month)}
        IN IF mine = {}
           THEN c \notin DOMAIN last.ret
           ELSE c \in DOMAIN last.ret /\ last.ret[c] = sum_amount(mine)

(***************************************************************************)
(* C8.  For a category with configured limit L and month spend S: no      *)
(* alert when L <= 0; when L > 0, "exceeded" exactly when S*100 >= 100*L, *)
(* "nearing" exactly when 80*L <= S*100 < 100*L, no alert exactly when    *)
(* S*100 < 80*L.  No category gets both states, and a category with       *)
(* spend but no configured limit gets no alert.                           *)
(***************************************************************************)
AlertStates(cat) == {alerts[i].state : i \in {j \in 1..Len(alerts) : alerts[j].cat = cat}}
AlertCount(cat) == Cardinality({j \in 1..Len(alerts) : alerts[j].cat = cat})
LimitedCategories == {category_limits[i][1] : i \in 1..Len(category_limits)}

\* C8: the alerts render_alerts collected are those the thresholds 80% and 100% give.
C8_AlertThresholds ==
    last.op = "render_alerts" =>
      /\ \A i \in 1..Len(category_limits) :
           LET cat == category_limits[i][1]
               lim == category_limits[i][2]
               S   == IF cat \in DOMAIN cat_spend THEN cat_spend[cat] ELSE 0
           IN /\ AlertCount(cat) <= 1
              /\ isinstance_int(lim) =>
                   LET L == lim.int IN
                   /\ L <= 0 => AlertStates(cat) = {}
                   /\ L > 0 =>
                        /\ "exceeded" \in AlertStates(cat) <=> S * 100 >= 100 * L
                        /\ "nearing" \in AlertStates(cat) <=>
                             (80 * L <= S * 100 /\ S * 100 < 100 * L)
                        /\ AlertStates(cat) = {} <=> S * 100 < 80 * L
              /\ ~isinstance_int(lim) => AlertStates(cat) = {}
      /\ \A c \in DOMAIN cat_spend \ LimitedCategories : AlertStates(c) = {}

\* Limit 100: spend 80 is "nearing"; beside it a category with spend and no limit.
C8_Witness ==
    /\ last.op = "render_alerts"
    /\ category_limits = <<<<"Food", IntValue(100)>>, <<"Rent", IntValue(0)>>>>
    /\ cat_spend = [c \in {"Food", "Other"} |-> 80]
    /\ alerts = <<[cat |-> "Food", state |-> "nearing"]>>

(***************************************************************************)
(* C11.  After a successful save_family(family_name, u, rows),            *)
(* load_family(u) returns one member per element of rows, in the order of *)
(* rows, and none of the members u had before; is_head is 1 exactly when  *)
(* the supplied value, as a string in lower case, is "on", "true", "1" or *)
(* "yes".  The rows of other users stay.                                  *)
(***************************************************************************)
TruthySpellings == {<<"o", "n">>, <<"t", "r", "u", "e">>, <<"1">>, <<"y", "e", "s">>}

SuppliedIsHead(r) == IF "is_head" \in DOMAIN r.dict THEN r.dict["is_head"] ELSE StrValue(<<>>)

C11_SaveStep ==
    (last'.op = "save_family" /\ last'.ret = TRUE) =>
      LET u    == last'.username
          rows == last'.rows
          got  == load_family_from(family', u)
      IN /\ Len(got) = Len(rows)
         /\ \A i \in 1..Len(rows) :
              /\ got[i].member_name = member_name_of(rows[i])
              /\ got[i].is_head \in {0, 1}
              /\ got[i].is_head = 1 <=>
                   lower(str_of(SuppliedIsHead(rows[i]))) \in TruthySpellings
              /\ \A r \in family : r.id # got[i].id
              /\ \E r \in family' : r.username = u /\ r.id = got[i].id
         /\ \A r \in family : r.username = u => r \notin family'
         /\ \A o \in FamilyUsers \ {u} :
              load_family_from(family', o) = load_family_from(family, o)

\* C11: every successful save_family step replaces the user's members by the
\* supplied rows, in order, with is_head 1 exactly for the truthy spellings.
C11_SaveFamilyReplaces == [][C11_SaveStep]_vars

\* A list of two rows replaced the member the user had: "YES" was stored as 1,
\* " yes" as 0, in the order given.
C11_Witness ==
    /\ last.op = "save_family"
    /\ last.ret = TRUE
    /\ last.rows = <<RowDict(StrValue(<<"a", "n", "n">>), StrValue(<<"Y", "E", "S">>)),
                     RowDict(StrValue(<<"a", "n", "n">>), StrValue(<<" ", "y", "e", "s">>))>>
    /\ last.rowcount = 1
    /\ family_seq = 3
    /\ load_family_result(last.username) =
         <<[id |-> 2, member_name |-> <<"a", "n", "n">>, is_head |-> 1],
           [id |-> 3, member_name |-> <<"a", "n", "n">>, is_head |-> 0]>>

(***************************************************************************)
(* C12.  In send_budget_alert the two channels are independent: however   *)
(* the chat delivery ends (skipped, non-200, exception), the mail         *)
(* delivery is attempted when the user has a stored email; the chat       *)
(* attempt is made whenever token and chat id are configured, however the *)
(* mail delivery ends; nothing is raised to the caller.                   *)
(***************************************************************************)
StoredEmails(u) == {r.email : r \in {x \in users : x.username = u /\ x.email # ""}}

ChatConfigured ==
    /\ file_exists(telegram_config)
    /\ json_loads_ok(telegram_config)
    /\ \A k \in {"bot_token", "chat_id"} :
         /\ k \in DOMAIN telegram_config.json
         /\ isinstance_str(telegram_config.json[k])
         /\ \E i \in 1..Len(telegram_config.json[k].str) : telegram_config.json[k].str[i] # " "

\* C12: after every send_budget_alert the mail was attempted exactly when the user
\* has a stored email and the chat post exactly when the chat is configured,
\* whatever the other channel did, and nothing was raised.
C12_ChannelsIndependent ==
    last.op = "send_budget_alert" =>
      /\ last.raised = FALSE
      /\ last.email_called <=> StoredEmails(last.username) # {}
      /\ last.email_called =>
           /\ smtp_configured =>
                \E m \in TheValue(last.email).mailed : m.to \in StoredEmails(last.username)
           /\ ~smtp_configured => TheValue(last.email).how = "not_configured"
      /\ last.telegram.posted # NULL <=> ChatConfigured
      /\ last.telegram.how \in {"skipped", "error"} <=> ~ChatConfigured

\* The chat post ended in a transport exception and the mail to the user's stored
\* address was attempted all the same, and failed as well.
C12_Witness ==
    /\ last.op = "send_budget_alert"
    /\ last.telegram.posted # NULL
    /\ last.telegram.how = "exception"
    /\ last.email_called
    /\ TheValue(last.email).how = "exception"
    /\ \E m \in TheValue(last.email).mailed : m.to = "e1"

(***************************************************************************)
(* C13.  The chat id used for a user is the user's entry in the per-user  *)
(* mapping when present and not blank, else the global default when not   *)
(* blank, else none; the chat message of send_budget_alert for a user     *)
(* with a per-user entry is addressed to that entry.  The code breaks     *)
(* this: send_budget_alert calls send_telegram_alert, which reads the     *)
(* chat id of the global file only, and get_user_contacts returns a       *)
(* per-user entry of blanks as it is.                                     *)
(***************************************************************************)
is_blank(x) ==
    \/ is_None(x)
    \/ isinstance_str(x) /\ \A i \in 1..Len(x.str) : x.str[i] = " "

PerUserEntry(u) ==
    IF file_exists(telegram_users) /\ json_loads_ok(telegram_users)
       /\ u \in DOMAIN telegram_users.json
    THEN {telegram_users.json[u]} \ {x \in {telegram_users.json[u]} : is_blank(x)}
    ELSE {}

GlobalDefault ==
    IF file_exists(telegram_config) /\ json_loads_ok(telegram_config)
       /\ "chat_id" \in DOMAIN telegram_config.json
    THEN {telegram_config.json["chat_id"]}
           \ {x \in {telegram_config.json["chat_id"]} : is_blank(x)}
    ELSE {}

PrecedenceChatId(u) == IF PerUserEntry(u) # {} THEN PerUserEntry(u) ELSE GlobalDefault

\* get_user_contacts resolves the chat id with the stated precedence.
C13_ContactsPrecedence ==
    last.op = "get_user_contacts" =>
      last.ret.telegram_chat_id = PrecedenceChatId(last.username)

\* The chat message of send_budget_alert goes to the user's per-user entry.
C13_AlertAddressedToEntry ==
    last.op = "send_budget_alert" =>
      \A post \in last.telegram.posted : \A entry \in PerUserEntry(last.username) :
        post.chat_id = strip(entry.str)

\* C13: the chat id is resolved per-user entry first, global default second, and
\* the alert of a user with a per-user entry is addressed to that entry.
C13_ChatIdPrecedence ==
    /\ C13_ContactsPrecedence
    /\ C13_AlertAddressedToEntry

(***************************************************************************)
(* C14.  create_reset_token overwrites the prior token of the matched     *)
(* user: each user has at most one stored reset token at any time, and    *)
(* once a later create_reset_token for the same user has returned, the    *)
(* token of the earlier call is not accepted by verify_reset_token, even  *)
(* before its own expiry.                                                 *)
(***************************************************************************)
StoredTokensIn(table, u) == UNION {r.reset_token : r \in {x \in table : x.username = u}}
StoredTokens(u) == StoredTokensIn(users, u)

C14_OneTokenPerUser ==
    \A u \in Usernames : Cardinality(StoredTokens(u)) <= 1

C14_CreateStep ==
    (last'.op = "create_reset_token" /\ last'.ret # NULL) =>
      LET u == last'.username IN
      /\ \E r \in users : r.username = u /\ reset_token_match(r, last'.email_or_username)
      /\ \A t \in StoredTokens(u) :
           /\ t \notin last'.ret
           /\ (verify_reset_token_results(t) = {NULL})'
      /\ StoredTokensIn(users', u) = last'.ret
      /\ \A o \in Usernames \ {u} : StoredTokensIn(users', o) = StoredTokens(o)

\* C14: one stored token per user always, and every create_reset_token step
\* that returns a token makes the user's earlier token unacceptable.
C14_TokenOverwritten ==
    /\ []C14_OneTokenPerUser
    /\ [][C14_CreateStep]_vars

\* A second token was issued to a user whose first token had not expired: the
\* first is refused now, the second is accepted.
C14_Witness ==
    /\ last.op = "create_reset_token"
    /\ last.ret # NULL
    /\ last.had_token # NULL
    /\ last.had_token # last.ret
    /\ \E e \in last.had_expiry : e # 0 /\ ~time_after(e)
    /\ \A t \in last.had_token : verify_reset_token_results(t) = {NULL}
    /\ \A t \in last.ret : verify_reset_token_results(t) = {Some(last.username)}

(***************************************************************************)
(* C15.  When set_budget calls for the same user run at the same time,    *)
(* however their statements interleave: the user never has two budget     *)
(* rows, has exactly one from the first commit on, and load_budget        *)
(* returns the main budget and the category limits of one call, the one   *)
(* that committed last, until the next commit.                            *)
(***************************************************************************)
C15_AtMostOneRow ==
    \A u \in FamilyUsers : Cardinality({r \in budgets : r.username = u}) <= 1

C15_Step ==
    /\ \A u \in FamilyUsers :
         (\E r \in budgets : r.username = u) => (\E r \in budgets' : r.username = u)
    /\ (last'.op = "set_budget" /\ last'.ret = TRUE) =>
         LET u == last'.username IN
         /\ Cardinality({r \in budgets' : r.username = u}) = 1
         /\ load_budget_from(budgets', u) =
              [main_budget |-> coerce_main_budget(last'.main_budget),
               category_limits_json |-> coerce_category_limits(last'.category_limits)]
         /\ \A o \in FamilyUsers \ {u} :
              load_budget_from(budgets', o) = load_budget_from(budgets, o)
    /\ ~(last'.op = "set_budget" /\ last'.ret = TRUE) => budgets' = budgets

\* C15: at most one budgets row per user in every state, and on every step the
\* table changes only by a commit, which leaves the user exactly the row of the
\* committing call.
C15_LastCommitWins ==
    /\ []C15_AtMostOneRow
    /\ [][C15_Step]_vars

\* Two calls for the same user overlapped and gave different values: the one that
\* committed second left the only row, and load_budget returns its values.
C15_Witness ==
    /\ last.op = "set_budget"
    /\ last.ret = TRUE
    /\ last.overlapped
    /\ budgets_seq = 2
    /\ last.main_budget = StrValue(<<"7", "5">>)
    /\ last.category_limits = DictValue(FoodLimit)
    /\ budgets = {[id |-> 2, username |-> last.username, main_budget |-> Some(75),
                   category_limits_json |-> JsonText(FoodLimit)]}
    /\ load_budget_result(last.username) =
         [main_budget |-> Some(75), category_limits_json |-> JsonText(FoodLimit)]

(***************************************************************************)
(* C16.  Every stored goal row has target_amount >= 0 and                 *)
(* months_to_complete >= 1, whatever target amount and months add_goal    *)
(* was given.  The code breaks this for negative arguments:               *)
(* float(target_amount or 0.0) and int(months or 1) replace only None and *)
(* 0, so a negative number is stored as it is.                            *)
(***************************************************************************)
\* C16: every goals row has a target amount of at least 0 and at least 1 month.
C16_GoalRowsInRange ==
    \A g \in goals : g.target_amount >= 0 /\ g.months_to_complete >= 1

\* Missing and zero arguments are coerced as stated: to target 0 and to 1 month.
C16_MissingAndZeroCoerced ==
    last.op = "add_goal" =>
      \E g \in goals :
        /\ g.id = goals_seq
        /\ last.target_amount \in {NULL, Some(0)} => g.target_amount = 0
        /\ last.months \in {NULL, Some(0)} => g.months_to_complete = 1

(***************************************************************************)
(* C17.  Tenant isolation.  Every accessor called with username u leaves  *)
(* the family, expense, budget and goal rows of every other username as   *)
(* they were, also when given a numeric id of another user's row; and     *)
(* load_family, load_expenses, load_budget, load_goals and                *)
(* category_breakdown for u return data of rows owned by u only.          *)
(***************************************************************************)
TenantOps ==
    {"add_family_member", "save_family", "delete_family_member", "add_expense",
     "set_budget", "add_goal", "delete_goal", "load_family", "load_expenses",
     "load_budget", "load_goals", "category_breakdown"}

OwnedBy(table, u) == {r \in table : r.username = u}

C17_FrameStep ==
    last'.op \in TenantOps =>
      \A o \in FamilyUsers \ {last'.username} :
        /\ OwnedBy(family', o) = OwnedBy(family, o)
        /\ OwnedBy(expenses', o) = OwnedBy(expenses, o)
        /\ OwnedBy(budgets', o) = OwnedBy(budgets, o)
        /\ OwnedBy(goals', o) = OwnedBy(goals, o)

C17_LoadsOwnRows ==
    /\ last.op = "load_family" =>
         /\ Len(last.ret) = Cardinality(OwnedBy(family, last.username))
         /\ \A i \in 1..Len(last.ret) :
              \E r \in OwnedBy(family, last.username) :
                /\ r.id = last.ret[i].id
                /\ r.member_name = last.ret[i].member_name
                /\ r.is_head = last.ret[i].is_head
    /\ last.op = "load_goals" =>
         /\ Len(last.ret) = Cardinality(OwnedBy(goals, last.username))
         /\ \A i \in 1..Len(last.ret) :
              \E r \in OwnedBy(goals, last.username) :
                /\ r.id = last.ret[i].id
                /\ r.goal_name = last.ret[i].goal_name
                /\ r.target_amount = last.ret[i].target_amount
                /\ r.months_to_complete = last.ret[i].months_to_complete
    /\ last.op = "load_expenses" =>
         /\ Len(last.ret) = Cardinality(OwnedBy(expenses, last.username))
         /\ \A i \in 1..Len(last.ret) :
              \E r \in OwnedBy(expenses, last.username) :
                /\ r.id = last.ret[i].id
                /\ r.date = last.ret[i].date
                /\ r.amount = last.ret[i].amount
                /\ r.category = last.ret[i].category
    /\ last.op = "load_budget" =>
         IF OwnedBy(budgets, last.username) = {}
         THEN last.ret = [main_budget |-> NULL, category_limits_json |-> EmptyObjectText]
         ELSE \E r \in OwnedBy(budgets, last.username) :
                /\ r.main_budget = last.ret.main_budget
                /\ r.category_limits_json = last.ret.category_limits_json
    /\ last.op = "category_breakdown" =>
         \A c \in DOMAIN last.ret :
           \E S \in SUBSET OwnedBy(expenses, last.username) :
             S # {} /\ last.ret[c] = sum_amount(S)

\* C17: every accessor step leaves the rows of the other users unchanged, and
\* every load returns rows of its own user only.
C17_TenantIsolation ==
    /\ []C17_LoadsOwnRows
    /\ [][C17_FrameStep]_vars

\* A user asked to delete the goal with id "1", which is another user's row: it
\* was refused, and the other user's goal, budget and expense are all there.
C17_Witness ==
    /\ last.op = "delete_goal"
    /\ last.identifier = StrValue(<<"1">>)
    /\ last.ret = FALSE
    /\ \E r \in goals : r.id = 1 /\ r.username # last.username
    /\ \E r \in budgets : r.username # last.username
    /\ \E r \in expenses : r.username # last.username

(***************************************************************************)
(* C18.  For every user and month, the sum of the values of               *)
(* category_breakdown(u, y, m), which is the dashboard's monthly spent,   *)
(* equals the sum of the amounts of all expenses of u dated in that       *)
(* month, which is what get_monthly_family_expenses computes.  The code   *)
(* breaks this when the month has expenses with the empty category and    *)
(* expenses with category "Other": the breakdown keeps one of the two     *)
(* totals under "Other", so the other is missing from the sum.            *)
(***************************************************************************)
\* C18: the values of every breakdown add up to the month's total.
C18_MonthlySpentEqualsTotal ==
    /\ \A u \in FamilyUsers, y \in Years, m \in Months :
         monthly_spent(category_breakdown_result(u, y, m)) =
           get_monthly_family_expenses_result(u, y, m)
    /\ last.op = "category_breakdown" =>
         monthly_spent(last.ret) =
           sum_amount({r \in expenses : /\ r.username = last.username
                                        /\ DatedIn(r, last.year, last.month)})

\* Without an expense of the empty category the two totals agree.
C18_EqualWithoutEmptyCategory ==
    \A u \in FamilyUsers, y \in Years, m \in Months :
      (\A r \in expenses : r.username = u => r.category # "") =>
        monthly_spent(category_breakdown_result(u, y, m)) =
          get_monthly_family_expenses_result(u, y, m)

====
